---- MODULE Spec2Model ----
(***************************************************************************)
(* A model of the analysis pipeline of src/utils.py: event rows are        *)
(* counted per day (daily_event_count), joined into actor pairs            *)
(* (prepare_df_to_graph), summed over rolling windows                      *)
(* (rolling_window_stats), turned into per-day graphs and graph metrics    *)
(* (calculate_graph_metrics, graphs_metrics_to_dataframe) and compared     *)
(* with lagged distance correlation.                                       *)
(*                                                                         *)
(* Data frames are sequences of records (rows in frame order).  Actor and  *)
(* object identifiers are naturals whose order stands for the string       *)
(* order the code compares them with.  Dates are the naturals 1, 2, ...;   *)
(* NULL is the null date.                                                  *)
(***************************************************************************)
EXTENDS Integers, Sequences, FiniteSets, TLC

VARIABLES
    pc,             \* the component this behaviour exercises and its position
    df,             \* the event frame read_csv_to_polars returned
    counts,         \* daily_event_count(df)
    pairs,          \* the last prepare_df_to_graph result
    pairs_arg,      \* the event_type argument of that call
    rolling,        \* the last rolling_window_stats result
    rolling_arg,    \* [event_type, window_days] of that call
    ran,            \* the operations that have returned (or raised)
    graphs_by_date, \* a dict date -> graph, as its items in insertion order
    metrics,        \* the last calculate_graph_metrics outcome
    metrics_graph,  \* the graph of that call
    metrics_df,     \* the last graphs_metrics_to_dataframe outcome
    smoothing,      \* the smoothing_period_days argument of that call
    corr_df,        \* the metric table handed to the correlation functions
    lagged,         \* the last lagged_distance_correlation_all_pairs result
                    \* (all_lagged_results inside the best-lag function)
    best,           \* the last best_lagged_distance_correlation_per_pair result
    max_lag,        \* the max_lag argument of that call
    files,          \* the download directory: the file of each date-hour
    returned,       \* what the last download_file call of each date-hour returned
    failed_downloads \* failed_downloads of the last download_date_range run

frames == <<df, counts, pairs, pairs_arg, rolling, rolling_arg>>
graphs == <<graphs_by_date, metrics, metrics_graph, metrics_df, smoothing>>
corrs == <<corr_df, lagged, best, max_lag>>
downloads == <<files, returned, failed_downloads>>
vars == <<pc, ran, frames, graphs, corrs, downloads>>

\* ------------------------------------------------------------------ bounds

MaxEvents == 4      \* rows of an event frame

\* ------------------------------------------------------------- vocabulary

NULL == 0           \* a null cell (None)

Dates == {1, 2}
Actors == {1, 2}
Objects == {1, 2}
ObjectTypes == {"issue", "pr"}
\* The objects of the event frames: object 1 is acted on as an issue and as a
\* pull request, object 2 as an issue.
ObjectKinds == {<<1, "issue">>, <<1, "pr">>, <<2, "issue">>}
EventTypeArgs == ObjectTypes \cup {"None", "other"}

\* The order of Utf8 object_type values: "issue" < "pr".
TypeRank(t) == IF t = "issue" THEN 1 ELSE 2

SeqToSet(s) == {s[i] : i \in DOMAIN s}

RECURSIVE SumSeq(_)
SumSeq(s) == IF s = <<>> THEN 0 ELSE Head(s) + SumSeq(Tail(s))

\* The sequence of the elements of S ascending under the strict total order
\* `less`, the set of the pairs <<x, y>> with x before y.
SortSet(S, less) ==
    [i \in 1..Cardinality(S) |->
        CHOOSE x \in S : Cardinality({y \in S : <<y, x>> \in less}) = i - 1]

\* A stable sort of frame s by its integer keys (keys[i] is the key of row
\* i), nulls (0) first.
StableSort(s, keys) ==
    LET pos(i) == Cardinality({j \in DOMAIN s :
                      \/ keys[j] < keys[i]
                      \/ keys[j] = keys[i] /\ j < i}) + 1
    IN [p \in DOMAIN s |-> s[CHOOSE i \in DOMAIN s : pos(i) = p]]

\* The event_date column of a frame.
DateColumn(s) == [i \in DOMAIN s |-> s[i].event_date]

Orders(n) == {f \in [1..n -> 1..n] : \A i, j \in 1..n : i # j => f[i] # f[j]}

\* ------------------------------------------------------- _parse_mixed_datetime

\* A date string: the format it is written in (or "other") and its day.
DateFormats == <<"%Y-%m-%d %H:%M:%S", "%Y-%m-%dT%H:%M:%S%z", "%Y/%m/%d %H:%M:%S %z">>

\* Day d written in one of the three formats.
DateString(d) == [fmt |-> DateFormats[((d - 1) % Len(DateFormats)) + 1], day |-> d]

\* A string in none of the formats.
BadDateString == [fmt |-> "other", day |-> 1]

DateStrings == {DateString(d) : d \in Dates} \cup {BadDateString}

\* Whether datetime.strptime(s, fmt) parses (it raises ValueError otherwise).
StrptimeParses(s, fmt) == s.fmt = fmt

\* The formats are tried in order from the i-th; None when none parses.
RECURSIVE ParseFrom(_, _)
ParseFrom(dt_str, i) ==
    IF i > Len(DateFormats) THEN NULL
    ELSE IF StrptimeParses(dt_str, DateFormats[i]) THEN dt_str.day
    ELSE ParseFrom(dt_str, i + 1)

_parse_mixed_datetime(dt_str) == ParseFrom(dt_str, 1)

\* One parsed row of read_csv_to_polars.
EventRow(s, a, o, t) ==
    [event_date |-> _parse_mixed_datetime(s), actor_id |-> a,
     object_id |-> o, object_type |-> t]

EventRows == {EventRow(s, a, k[1], k[2]) :
                 s \in DateStrings, a \in Actors, k \in ObjectKinds}

\* ------------------------------------------------------------ daily_event_count

CountKey(r) == <<r.event_date, r.actor_id, r.object_id, r.object_type>>

\* Lexicographic order on (event_date, actor_id, object_id, object_type),
\* the null date before every date.
CountRowLess(r, q) ==
    \/ r.event_date < q.event_date
    \/ r.event_date = q.event_date /\ r.actor_id < q.actor_id
    \/ r.event_date = q.event_date /\ r.actor_id = q.actor_id
        /\ r.object_id < q.object_id
    \/ r.event_date = q.event_date /\ r.actor_id = q.actor_id
        /\ r.object_id = q.object_id
        /\ TypeRank(r.object_type) < TypeRank(q.object_type)

CountOrder(S) == {pr \in S \X S : CountRowLess(pr[1], pr[2])}

\* group_by keeps a null key as a group of its own.
daily_event_count(d) ==
    LET keys == {CountKey(d[i]) : i \in DOMAIN d}
        row(k) == [event_date |-> k[1], actor_id |-> k[2], object_id |-> k[3],
                   object_type |-> k[4],
                   daily_event_count |->
                       Cardinality({i \in DOMAIN d : CountKey(d[i]) = k})]
    IN SortSet({row(k) : k \in keys}, CountOrder({row(k) : k \in keys}))

\* ---------------------------------------- _create_actor_pairs_by_date_and_object

JoinMatchObjectOnly(l, r) == l.object_id = r.object_id

\* The join matches on (event_date, object_id); a null key matches nothing.
JoinMatch(l, r) ==
    /\ l.event_date # NULL
    /\ r.event_date # NULL
    /\ l.event_date = r.event_date
    /\ l.object_id = r.object_id

PairFilterDistinct(l, r) == l.actor_id # r.actor_id

\* pl.col("actor_id") < pl.col("actor_id_2")
PairFilter(l, r) == l.actor_id < r.actor_id

PairRow(l, r) ==
    [event_date |-> l.event_date, object_id |-> l.object_id,
     actor_id |-> l.actor_id, actor_id_2 |-> r.actor_id,
     total_daily_event_count |-> l.daily_event_count + r.daily_event_count]

\* The rows of the inner self-join, left row by left row.
RECURSIVE JoinFrom(_, _, _, _)
JoinFrom(c, i, j, acc) ==
    IF i > Len(c) THEN acc
    ELSE IF j > Len(c) THEN JoinFrom(c, i + 1, 1, acc)
    ELSE JoinFrom(c, i, j + 1,
            IF JoinMatch(c[i], c[j]) /\ PairFilter(c[i], c[j])
            THEN Append(acc, PairRow(c[i], c[j])) ELSE acc)

_create_actor_pairs_by_date_and_object(c) == JoinFrom(c, 1, 1, <<>>)

\* ---------------------------------------------------------- prepare_df_to_graph

FilterEventType(c, event_type) ==
    IF event_type = "None" THEN c
    ELSE LET Keep(r) == r.object_type = event_type IN SelectSeq(c, Keep)

PairKey(p) == <<p.event_date, p.actor_id, p.actor_id_2>>

\* The groups of (event_date, actor_id, actor_id_2), one row each.
PairGroups(ap) ==
    LET keys == {PairKey(ap[i]) : i \in DOMAIN ap}
        total(k) == SumSeq([i \in DOMAIN ap |->
                        IF PairKey(ap[i]) = k
                        THEN ap[i].total_daily_event_count ELSE 0])
    IN {[event_date |-> k[1], actor_id |-> k[2], actor_id_2 |-> k[3],
         total_daily_event_count |-> total(k)] : k \in keys}

AggRowLess(r, q) ==
    \/ r.event_date < q.event_date
    \/ r.event_date = q.event_date /\ r.actor_id < q.actor_id
    \/ r.event_date = q.event_date /\ r.actor_id = q.actor_id
        /\ r.actor_id_2 < q.actor_id_2

AggOrder(S) == {pr \in S \X S : AggRowLess(pr[1], pr[2])}

\* group_by emits its groups in no particular order: `order` is the order
\* of this run, a permutation of the groups; the sort by event_date follows.
prepare_df_to_graph(c, event_type, order) ==
    LET ap == _create_actor_pairs_by_date_and_object(FilterEventType(c, event_type))
        groups == SortSet(PairGroups(ap), AggOrder(PairGroups(ap)))
        emitted == [i \in DOMAIN groups |-> groups[order[i]]]
    IN StableSort(emitted, DateColumn(emitted))

NumPairGroups(c, event_type) ==
    Cardinality(PairGroups(
        _create_actor_pairs_by_date_and_object(FilterEventType(c, event_type))))


\* --------------------------------------------------------- rolling_window_stats

RollingDates == {1, 2, 3}
MaxWindow == 3      \* window_days ranges over 1..MaxWindow

\* group_by("event_date").agg(n_unique, sum): one row per date of c, the null
\* date included.
DailyStats(c) ==
    {[event_date |-> d,
      daily_unique_actors |->
          Cardinality({c[i].actor_id : i \in {j \in DOMAIN c : c[j].event_date = d}}),
      daily_event_count |->
          SumSeq([i \in DOMAIN c |->
              IF c[i].event_date = d THEN c[i].daily_event_count ELSE 0])] :
        d \in {c[i].event_date : i \in DOMAIN c}}

DailyStatsOrder(S) == {pr \in S \X S : pr[1].event_date < pr[2].event_date}

\* rolling_sum(window_size) with the default min_samples = window_size: the
\* sum of the window_size cells ending at row i, null before the window fills.
RollingSum(col, i, window_size) ==
    IF i < window_size THEN NULL
    ELSE SumSeq([k \in 1..window_size |-> col[i - window_size + k]])

\* `order` is the order group_by emits the date groups in; the rolling sums
\* run over the groups as emitted, and the result is then sorted by date.
rolling_window_stats(c, event_type, window_days, order) ==
    LET filtered == FilterEventType(c, event_type)
        sorted_df == StableSort(filtered, DateColumn(filtered))
        groups == SortSet(DailyStats(sorted_df), DailyStatsOrder(DailyStats(sorted_df)))
        daily_stats == [i \in DOMAIN groups |-> groups[order[i]]]
        actors == [i \in DOMAIN daily_stats |-> daily_stats[i].daily_unique_actors]
        events == [i \in DOMAIN daily_stats |-> daily_stats[i].daily_event_count]
        rolling_stats ==
            [i \in DOMAIN daily_stats |->
                [event_date |-> daily_stats[i].event_date,
                 rolling_unique_actors |-> RollingSum(actors, i, window_days),
                 rolling_event_count |-> RollingSum(events, i, window_days)]]
    IN StableSort(rolling_stats, DateColumn(rolling_stats))

NumDateGroups(c, event_type) ==
    Cardinality(DailyStats(FilterEventType(c, event_type)))


\* ------------------------------------------------------------------- rationals

\* A metric value: the rational n/d in lowest terms, or INF (float('inf')).
RECURSIVE GCD(_, _)
GCD(a, b) == IF b = 0 THEN a ELSE GCD(b, a % b)

Rat(n, d) == LET g == GCD(n, d) IN [n |-> n \div g, d |-> d \div g]
Whole(n) == [n |-> n, d |-> 1]
INF == [n |-> 1, d |-> 0]

RAdd(a, b) ==
    IF a = INF \/ b = INF THEN INF
    ELSE Rat(a.n * b.d + b.n * a.d, a.d * b.d)

RDiv(a, k) == IF a = INF THEN INF ELSE Rat(a.n, a.d * k)

RECURSIVE RSum(_)
RSum(s) == IF s = <<>> THEN Whole(0) ELSE RAdd(Head(s), RSum(Tail(s)))

\* ---------------------------------------------------------------------- graphs

\* An nx.Graph without self-loops: its nodes and its edges {u, v}.
Graph(ns, es) == [nodes |-> ns, edges |-> es]

number_of_nodes(G) == Cardinality(G.nodes)
number_of_edges(G) == Cardinality(G.edges)
Neighbors(G, v) == {u \in G.nodes : u # v /\ {u, v} \in G.edges}
Degree(G, v) == Cardinality(Neighbors(G, v))

\* The nodes in ascending order (one iteration order of the graph).
NodeList(G) ==
    [i \in 1..Cardinality(G.nodes) |->
        CHOOSE v \in G.nodes : Cardinality({u \in G.nodes : u < v}) = i - 1]

\* The nodes within k steps of s.
RECURSIVE Ball(_, _, _)
Ball(G, s, k) ==
    IF k = 0 THEN {s}
    ELSE LET b == Ball(G, s, k - 1)
         IN b \cup UNION {Neighbors(G, u) : u \in b}

Component(G, v) == Ball(G, v, Cardinality(G.nodes))

\* The length of a shortest path from s to t (t in the component of s).
Distance(G, s, t) ==
    CHOOSE k \in 0..Cardinality(G.nodes) :
        /\ t \in Ball(G, s, k)
        /\ k = 0 \/ t \notin Ball(G, s, k - 1)

\* The number of shortest paths from s to t.
RECURSIVE NumPaths(_, _, _)
NumPaths(G, s, t) ==
    IF s = t THEN 1
    ELSE LET prev == {u \in Neighbors(G, t) \cap Component(G, s) :
                         Distance(G, s, u) = Distance(G, s, t) - 1}
             list == NodeList(Graph(prev, {}))
         IN SumSeq([i \in DOMAIN list |-> NumPaths(G, s, list[i])])

number_connected_components(G) == Cardinality({Component(G, v) : v \in G.nodes})

\* nx.is_connected raises NetworkXPointlessConcept on the null graph.
IsConnectedRaises(G) == G.nodes = {}
is_connected(G) == \A v \in G.nodes : Component(G, v) = G.nodes

\* nx.clustering of node v: triangles through v over pairs of neighbours.
Clustering(G, v) ==
    LET k == Degree(G, v)
        t == Cardinality({e \in G.edges : e \subseteq Neighbors(G, v)})
    IN IF k < 2 THEN Whole(0) ELSE Rat(2 * t, k * (k - 1))

\* nx.average_clustering: sum(c) / len(c), a ZeroDivisionError without nodes.
AverageClusteringRaises(G) == G.nodes = {}
average_clustering(G) ==
    LET list == NodeList(G)
    IN RDiv(RSum([i \in DOMAIN list |-> Clustering(G, list[i])]), Len(list))

\* nx.density: 0 for n <= 1 or no edge.
density(G) ==
    LET n == number_of_nodes(G)
        m == number_of_edges(G)
    IN IF m = 0 \/ n <= 1 THEN Whole(0) ELSE Rat(2 * m, n * (n - 1))

average_degree(G) ==
    IF number_of_nodes(G) > 0
    THEN Rat(2 * number_of_edges(G), number_of_nodes(G)) ELSE Whole(0)

number_of_isolated_nodes(G) == Cardinality({v \in G.nodes : Degree(G, v) = 0})

\* std() of a polars column is null for fewer than two values (and mean()
\* for none), and mean + 2 * None raises TypeError.
ThresholdRaises(scores) == Len(scores) < 2

\* The number of scores above mean + 2 * std (sample standard deviation),
\* over integers: with S the sum and n the length, x is above the threshold
\* iff n*x - S > 0 and (n*x - S)^2 * (n - 1) > 4 * sum_i (n*x_i - S)^2.
CountAboveThreshold(scores) ==
    LET n == Len(scores)
        S == SumSeq(scores)
        Q == SumSeq([i \in DOMAIN scores |-> (n * scores[i] - S) * (n * scores[i] - S)])
    IN Cardinality({i \in DOMAIN scores :
           /\ n * scores[i] - S > 0
           /\ (n * scores[i] - S) * (n * scores[i] - S) * (n - 1) > 4 * Q})

DegreeScores(G) == LET list == NodeList(G) IN [i \in DOMAIN list |-> Degree(G, list[i])]

count_supernodes_by_degree(G) == CountAboveThreshold(DegreeScores(G))

\* The pairs {s, t} of distinct connected nodes other than v.
PairsAround(G, v) ==
    {e \in SUBSET (G.nodes \ {v}) :
        /\ Cardinality(e) = 2
        /\ \E s \in e : e \subseteq Component(G, s)}

\* The shortest s-t paths through v.
PathsThrough(G, s, t, v) ==
    IF v \in Component(G, s)
       /\ Distance(G, s, v) + Distance(G, v, t) = Distance(G, s, t)
    THEN NumPaths(G, s, v) * NumPaths(G, v, t) ELSE 0

RECURSIVE BetweennessSum(_, _, _, _)
BetweennessSum(G, v, rest, scale) ==
    IF rest = {} THEN 0
    ELSE LET e == CHOOSE x \in rest : TRUE
             s == CHOOSE x \in e : TRUE
             t == CHOOSE x \in e : x # s
         IN (scale \div NumPaths(G, s, t)) * PathsThrough(G, s, t, v)
                + BetweennessSum(G, v, rest \ {e}, scale)

\* A common multiple of the shortest-path counts of a graph of up to five
\* nodes (at most three shortest paths join two of them).
PathCountMultiple == 6

\* nx.betweenness_centrality times a positive constant (the normalisation
\* and PathCountMultiple), which the threshold test does not see.
BetweennessScores(G) ==
    LET list == NodeList(G)
    IN [i \in DOMAIN list |->
           BetweennessSum(G, list[i], PairsAround(G, list[i]), PathCountMultiple)]

count_supernodes_by_betweenness(G) == CountAboveThreshold(BetweennessScores(G))

\* nx.average_shortest_path_length of a connected graph: 0 for one node.
average_shortest_path_length(G) ==
    LET n == number_of_nodes(G)
        list == NodeList(G)
        total == SumSeq([i \in DOMAIN list |->
                    SumSeq([j \in DOMAIN list |-> Distance(G, list[i], list[j])])])
    IN IF n = 1 THEN Whole(0) ELSE Rat(total, n * (n - 1))

\* nx.diameter of a connected graph: the largest distance.
diameter(G) ==
    LET ds == {Distance(G, s, t) : s \in G.nodes, t \in G.nodes}
    IN Whole(CHOOSE d \in ds : \A e \in ds : e <= d)

\* --------------------------------------------------- calculate_graph_metrics

MetricNames ==
    <<"number_of_nodes", "number_of_edges", "average_clustering", "density",
      "average_degree", "number_of_isolated_nodes", "number_of_connected_components",
      "number_of_supernodes_by_degree", "number_of_supernodes_by_betweenness",
      "average_shortest_path_length", "diameter">>

NoMetrics == [k \in SeqToSet(MetricNames) |-> Whole(0)]

Raised(e) == [exception |-> e, value |-> NoMetrics]
Returned(v) == [exception |-> "none", value |-> v]

\* The dict is built entry by entry: the first call that raises ends it.
calculate_graph_metrics(G) ==
    IF AverageClusteringRaises(G) THEN Raised("ZeroDivisionError")
    ELSE IF ThresholdRaises(DegreeScores(G)) THEN Raised("TypeError")
    ELSE IF ThresholdRaises(BetweennessScores(G)) THEN Raised("TypeError")
    ELSE IF IsConnectedRaises(G) THEN Raised("NetworkXPointlessConcept")
    ELSE Returned(
        [number_of_nodes |-> Whole(number_of_nodes(G)),
         number_of_edges |-> Whole(number_of_edges(G)),
         average_clustering |-> average_clustering(G),
         density |-> density(G),
         average_degree |-> average_degree(G),
         number_of_isolated_nodes |-> Whole(number_of_isolated_nodes(G)),
         number_of_connected_components |-> Whole(number_connected_components(G)),
         number_of_supernodes_by_degree |-> Whole(count_supernodes_by_degree(G)),
         number_of_supernodes_by_betweenness |-> Whole(count_supernodes_by_betweenness(G)),
         average_shortest_path_length |->
             IF is_connected(G) THEN average_shortest_path_length(G) ELSE INF,
         diameter |-> IF is_connected(G) THEN diameter(G) ELSE INF])

\* ----------------------------------------------- graphs_metrics_to_dataframe

MaxGraphs == 3      \* dates of a dict of graphs
MaxSmoothing == 3   \* smoothing_period_days ranges over 0..MaxSmoothing

\* metrics_list: the outcome of calculate_graph_metrics for every item of the
\* dict, in iteration order.
RECURSIVE MetricsList(_)
MetricsList(items) ==
    IF items = <<>> THEN <<>>
    ELSE <<[event_date |-> Head(items).date,
            outcome |-> calculate_graph_metrics(Head(items).graph)]>>
            \o MetricsList(Tail(items))

\* The exception of the first item whose calculate_graph_metrics raises.
RECURSIVE FirstException(_)
FirstException(list) ==
    IF list = <<>> THEN "none"
    ELSE IF Head(list).outcome.exception # "none" THEN Head(list).outcome.exception
    ELSE FirstException(Tail(list))

\* df.sort("event_date") of the metric rows (the dates of a dict differ).
RECURSIVE SortByDate(_)
SortByDate(list) ==
    IF list = <<>> THEN <<>>
    ELSE LET rest == SortByDate(Tail(list))
             row == [event_date |-> Head(list).event_date,
                     value |-> Head(list).outcome.value]
             k == Cardinality({i \in DOMAIN rest : rest[i].event_date < row.event_date})
         IN SubSeq(rest, 1, k) \o <<row>> \o SubSeq(rest, k + 1, Len(rest))

\* rolling_mean(window_size, min_samples=1): the mean of the cells of the
\* window ending at row i, cut at the first row.
RollingMean(col, i, window_size) ==
    LET first == IF i - window_size + 1 > 1 THEN i - window_size + 1 ELSE 1
    IN RDiv(RSum([k \in 1..(i - first + 1) |-> col[first + k - 1]]), i - first + 1)

Smooth(rows, window_size) ==
    [i \in DOMAIN rows |->
        [event_date |-> rows[i].event_date,
         value |-> [col \in SeqToSet(MetricNames) |->
                       RollingMean([k \in DOMAIN rows |-> rows[k].value[col]],
                                   i, window_size)]]]

\* The frame built from metrics_list: pl.DataFrame([]) has no column, and
\* sorting it by "event_date" raises.
MetricsFrame(list, smoothing_period_days) ==
    IF FirstException(list) # "none"
    THEN [exception |-> FirstException(list), rows |-> <<>>]
    ELSE IF list = <<>>
    THEN [exception |-> "ColumnNotFoundError", rows |-> <<>>]
    ELSE [exception |-> "none",
          rows |-> IF smoothing_period_days > 1
                   THEN Smooth(SortByDate(list), smoothing_period_days)
                   ELSE SortByDate(list)]

graphs_metrics_to_dataframe(items, smoothing_period_days) ==
    MetricsFrame(MetricsList(items), smoothing_period_days)

\* ---------------------------------------------------- create_graphs_by_date

\* nx.Graph(): no node, no edge.  A weighted graph holds the weight of each
\* of its edges.
EmptyGraph == [nodes |-> {}, edges |-> {}, weight |-> <<>>]

\* g.add_edge(u, v, weight=w): both ends become nodes, and the edge takes the
\* weight w, whether it is new or was there already.
add_edge(g, u, v, w) ==
    [nodes |-> g.nodes \cup {u, v},
     edges |-> g.edges \cup {{u, v}},
     weight |-> [e \in g.edges \cup {{u, v}} |->
                    IF e = {u, v} THEN w ELSE g.weight[e]]]

\* df.select("event_date").unique().sort("event_date"): nulls come first.
UniqueDates(frame) ==
    SortSet(SeqToSet(DateColumn(frame)),
            {pr \in SeqToSet(DateColumn(frame)) \X SeqToSet(DateColumn(frame)) :
                pr[1] < pr[2]})

\* A filter that keeps the rows of every date.
DateRowsUnfiltered(frame, date) == frame

\* df.filter(pl.col("event_date") == date): a null never compares equal.
DateRows(frame, date) ==
    SelectSeq(frame, LAMBDA row : date # NULL /\ row.event_date = date)

\* The graph after the rows of date_df, each added as an edge in turn.
RECURSIVE AddRows(_, _)
AddRows(g, date_df) ==
    IF date_df = <<>> THEN g
    ELSE AddRows(add_edge(g, Head(date_df).actor_id, Head(date_df).actor_id_2,
                          Head(date_df).total_daily_event_count),
                 Tail(date_df))

DateGraph(frame, date) ==
    [date |-> date, graph |-> AddRows(EmptyGraph, DateRows(frame, date))]

\* The returned dict, as its items in insertion order.
DateGraphs(frame, unique_dates) ==
    [i \in DOMAIN unique_dates |-> DateGraph(frame, unique_dates[i])]

create_graphs_by_date(frame) == DateGraphs(frame, UniqueDates(frame))

\* ------------------------------------------------------- lagged correlation

MaxLen == 4         \* rows of a metric table
MaxLag == 2         \* max_lag ranges over 0..MaxLag

\* The values of a numeric column.
Samples == {0, 1}

\* The columns of a metric table: the date column and two metric columns.
Schema ==
    <<[name |-> "event_date", dtype |-> "Date"],
      [name |-> "number_of_nodes", dtype |-> "Int64"],
      [name |-> "number_of_edges", dtype |-> "Int64"]>>

\* A table is the sequence of its columns.
EmptyFrame ==
    [c \in DOMAIN Schema |->
        [name |-> Schema[c].name, dtype |-> Schema[c].dtype, values |-> <<>>]]

is_numeric(dtype) == dtype \in {"Int64", "Float64"}

Abs(v) == IF v < 0 THEN 0 - v ELSE v

\* x[start:] and x[:stop] of Python: a negative index counts from the end
\* and every index is clamped to 0..len(x).
SliceIndex(n, i) ==
    IF i < 0 THEN (IF n + i < 0 THEN 0 ELSE n + i)
    ELSE (IF i > n THEN n ELSE i)

SliceFrom(x, start) == SubSeq(x, SliceIndex(Len(x), start) + 1, Len(x))

SliceTo(x, stop) == SubSeq(x, 1, SliceIndex(Len(x), stop))

\* dcor.distance_correlation.  With a[i][j] = |x[i] - x[j]| and b likewise,
\* DistanceProduct is n^4 times the squared sample distance covariance:
\* n^2 * sum a[i][j]*b[i][j] - 2n * sum_i a[i].*b[i]. + a.. * b.. , where a
\* dot stands for a sum over that index.
RowSum(x, i) == SumSeq([j \in DOMAIN x |-> Abs(x[i] - x[j])])

CrossSum(x, y) ==
    SumSeq([i \in DOMAIN x |->
        SumSeq([j \in DOMAIN x |-> Abs(x[i] - x[j]) * Abs(y[i] - y[j])])])

RowProductSum(x, y) == SumSeq([i \in DOMAIN x |-> RowSum(x, i) * RowSum(y, i)])

TotalSum(x) == SumSeq([i \in DOMAIN x |-> RowSum(x, i)])

DistanceProduct(x, y) ==
    Len(x) * Len(x) * CrossSum(x, y)
        - 2 * Len(x) * RowProductSum(x, y)
        + TotalSum(x) * TotalSum(y)

\* The coefficient is covariance / sqrt(variance_x * variance_y), and 0 when
\* that denominator is 0.  A coefficient is held as the exact rational of
\* its fourth power, cov^2 / (var_x * var_y), which orders coefficients as
\* the coefficients themselves are ordered (they are never negative).
Coefficient(cov, var_x, var_y) ==
    IF var_x * var_y = 0 THEN Whole(0) ELSE Rat(cov * cov, var_x * var_y)

distance_correlation(x, y) ==
    Coefficient(DistanceProduct(x, y), DistanceProduct(x, x),
                DistanceProduct(y, y))

\* a > b on coefficients.
Greater(a, b) == a.n * b.d > b.n * a.d

\* The two vectors the loop body hands to dcor for one lag.
LaggedVectorsSwapped(x_np, y_np, lag) ==
    IF lag < 0 THEN <<SliceFrom(x_np, 0 - lag), SliceTo(y_np, lag)>>
    ELSE IF lag > 0 THEN <<SliceTo(x_np, 0 - lag), SliceFrom(y_np, lag)>>
    ELSE <<x_np, y_np>>

LaggedVectors(x_np, y_np, lag) ==
    IF lag < 0 THEN <<SliceTo(x_np, lag), SliceFrom(y_np, 0 - lag)>>
    ELSE IF lag > 0 THEN <<SliceFrom(x_np, lag), SliceTo(y_np, 0 - lag)>>
    ELSE <<x_np, y_np>>

LaggedCoefficient(vectors) == distance_correlation(vectors[1], vectors[2])

\* range(-max_lag, max_lag + 1)
LagRange(L) == [k \in 1..(2 * L + 1) |-> k - L - 1]

\* pair_results of one column pair.
PairEntry(x_np, y_np, lag) ==
    [lag |-> lag, d |-> LaggedCoefficient(LaggedVectors(x_np, y_np, lag))]

PairResults(x_np, y_np, L) ==
    [k \in DOMAIN LagRange(L) |-> PairEntry(x_np, y_np, LagRange(L)[k])]

NumericColumns(frame) == SelectSeq(frame, LAMBDA c : is_numeric(c.dtype))

\* The index pairs <<i, j>> the two nested loops visit, in order, from <<i, j>> on.
RECURSIVE ColumnPairsFrom(_, _, _)
ColumnPairsFrom(i, j, n) ==
    IF i > n THEN <<>>
    ELSE IF j > n THEN ColumnPairsFrom(i + 1, i + 2, n)
    ELSE <<(<<i, j>>)>> \o ColumnPairsFrom(i, j + 1, n)

ColumnPairs(n) == ColumnPairsFrom(1, 2, n)

\* The results dict, as its items in insertion order.
PairItem(col_x, col_y, L) ==
    [pair |-> <<col_x.name, col_y.name>>,
     lags |-> PairResults(col_x.values, col_y.values, L)]

LaggedResults(cols, L) ==
    [p \in DOMAIN ColumnPairs(Len(cols)) |->
        PairItem(cols[ColumnPairs(Len(cols))[p][1]],
                 cols[ColumnPairs(Len(cols))[p][2]], L)]

lagged_distance_correlation_all_pairs(frame, L) ==
    LaggedResults(NumericColumns(frame), L)

\* max(lagged_corrs, key=lambda t: t[1]): the scan keeps the item it holds
\* unless the next one's key is greater.
KeyGreaterOrEqual(item, held) == ~Greater(held.d, item.d)

KeyGreater(item, held) == Greater(item.d, held.d)

RECURSIVE MaxScan(_, _)
MaxScan(held, rest) ==
    IF rest = <<>> THEN held
    ELSE MaxScan(IF KeyGreater(Head(rest), held) THEN Head(rest) ELSE held,
                 Tail(rest))

MaxByCoefficient(lagged_corrs) == MaxScan(Head(lagged_corrs), Tail(lagged_corrs))

\* best_results, from the all_lagged_results the function first computes.
BestResults(all_lagged_results) ==
    [p \in DOMAIN all_lagged_results |->
        [pair |-> all_lagged_results[p].pair,
         best |-> MaxByCoefficient(all_lagged_results[p].lags)]]

\* ------------------------------------------------------------- the downloader

MaxFiles == 3       \* date-hours of the archive
BodyChunks == 2     \* chunks of a response body

\* The date-hours, in the order download_date_range visits them.
DateHours == 1..MaxFiles

\* The file at an output path: absent, or there with the chunks written to it.
Absent == [exists |-> FALSE, chunks |-> 0]
Written(k) == [exists |-> TRUE, chunks |-> k]

\* What the network does to one request: requests.get raises
\* (ConnectionError), raise_for_status raises (HTTPError), iter_content
\* raises after `chunks` chunks were delivered (ChunkedEncodingError), or the
\* whole body arrives.  All three are RequestExceptions.
Outcomes ==
    {[error |-> e, chunks |-> 0] : e \in {"ConnectionError", "HTTPError"}}
        \cup {[error |-> "ChunkedEncodingError", chunks |-> k] : k \in 0..(BodyChunks - 1)}
        \cup {[error |-> "none", chunks |-> BodyChunks]}

\* download_file for one output path: the file afterwards and the value
\* returned.  open(output_path, 'wb') creates the file before the first
\* chunk is read, and the except clause does not remove it.
download_file(file, outcome) ==
    IF file.exists THEN [file |-> file, result |-> "True"]
    ELSE IF outcome.error \in {"ConnectionError", "HTTPError"}
        THEN [file |-> Absent, result |-> "False"]
    ELSE IF outcome.error = "ChunkedEncodingError"
        THEN [file |-> Written(outcome.chunks), result |-> "False"]
    ELSE [file |-> Written(BodyChunks), result |-> "True"]

\* failed_downloads: the date-hours of start..end, in order, whose call
\* returned False.
RECURSIVE FailedFrom(_, _, _)
FailedFrom(d, end, outcomes) ==
    IF d > end THEN <<>>
    ELSE (IF download_file(files[d], outcomes[d]).result = "False"
          THEN <<d>> ELSE <<>>) \o FailedFrom(d + 1, end, outcomes)

\* ------------------------------------------------------------------ actions

NoArg == [event_type |-> "None", window_days |-> 0]

\* Nothing has been read or computed.
Unread ==
    /\ df = <<>>
    /\ counts = <<>>
    /\ pairs = <<>>
    /\ pairs_arg = "None"
    /\ rolling = <<>>
    /\ rolling_arg = NoArg
    /\ ran = {}
    /\ graphs_by_date = <<>>
    /\ metrics = Raised("none")
    /\ metrics_graph = Graph({}, {})
    /\ metrics_df = [exception |-> "none", rows |-> <<>>]
    /\ smoothing = 0
    /\ corr_df = EmptyFrame
    /\ lagged = <<>>
    /\ best = <<>>
    /\ max_lag = 0
    /\ files = [d \in DateHours |-> Absent]
    /\ returned = [d \in DateHours |-> "none"]
    /\ failed_downloads = <<>>

InitAggregate == pc = "aggregate" /\ Unread

\* read_csv_to_polars, one line of the file per step: the date string is
\* parsed and the row joins the frame.  Every reader of the frame groups its
\* rows, so one row order per multiset of rows is read.
ReadCsvRow(rows) ==
    /\ ran = {}
    /\ Len(df) < MaxEvents
    /\ \E row \in rows :
        /\ df # <<>> => ~CountRowLess(row, df[Len(df)])
        /\ df' = Append(df, row)
    /\ UNCHANGED <<pc, counts, pairs, pairs_arg, rolling, rolling_arg, ran, graphs, corrs, downloads>>

ReadAggregate == pc = "aggregate" /\ ReadCsvRow(EventRows)

\* The frames of the rolling statistics: three days, one object.
RollingRows == {EventRow(DateString(d), a, 1, t) :
                   d \in RollingDates, a \in Actors, t \in ObjectTypes}

ReadRolling == pc = "rolling" /\ ReadCsvRow(RollingRows)

\* The frames with unparseable dates: one day, one object.
NullDateRows == {EventRow(s, a, 1, "issue") :
                    s \in {DateString(1), DateString(2), BadDateString}, a \in Actors}

ReadExclusion == pc = "exclusion" /\ ReadCsvRow(NullDateRows)

DailyEventCount ==
    /\ "daily_event_count" \notin ran
    /\ counts' = daily_event_count(df)
    /\ ran' = ran \cup {"daily_event_count"}
    /\ UNCHANGED <<pc, df, pairs, pairs_arg, rolling, rolling_arg, graphs, corrs, downloads>>

PrepareDfToGraph ==
    /\ pc \in {"aggregate", "exclusion", "graphs"}
    /\ "daily_event_count" \in ran
    /\ "prepare_df_to_graph" \notin ran
    /\ \E event_type \in EventTypeArgs :
        \E order \in Orders(NumPairGroups(counts, event_type)) :
            /\ pairs' = prepare_df_to_graph(counts, event_type, order)
            /\ pairs_arg' = event_type
    /\ ran' = ran \cup {"prepare_df_to_graph"}
    /\ UNCHANGED <<pc, df, counts, rolling, rolling_arg, graphs, corrs, downloads>>

RollingWindowStats ==
    /\ pc \in {"rolling", "exclusion"}
    /\ "daily_event_count" \in ran
    /\ "rolling_window_stats" \notin ran
    /\ \E event_type \in EventTypeArgs, window_days \in 1..MaxWindow :
        \E order \in Orders(NumDateGroups(counts, event_type)) :
            /\ rolling' = rolling_window_stats(counts, event_type, window_days, order)
            /\ rolling_arg' = [event_type |-> event_type, window_days |-> window_days]
    /\ ran' = ran \cup {"rolling_window_stats"}
    /\ UNCHANGED <<pc, df, counts, pairs, pairs_arg, graphs, corrs, downloads>>

NextAggregate == ReadAggregate \/ DailyEventCount \/ PrepareDfToGraph

SpecAggregate == InitAggregate /\ [][NextAggregate]_vars

InitRolling == pc = "rolling" /\ Unread

NextRolling == ReadRolling \/ DailyEventCount \/ RollingWindowStats

SpecRolling == InitRolling /\ [][NextRolling]_vars

InitExclusion == pc = "exclusion" /\ Unread

NextExclusion ==
    ReadExclusion \/ DailyEventCount \/ PrepareDfToGraph \/ RollingWindowStats

SpecExclusion == InitExclusion /\ [][NextExclusion]_vars

\* ---- the graphs of the pair table

GraphActors == {1, 2, 3}

\* The frames the graphs are built from: two days, three actors, two objects.
GraphRows == {EventRow(DateString(d), a, o, "issue") :
                 d \in Dates, a \in GraphActors, o \in Objects}

InitGraphs == pc = "graphs" /\ Unread

ReadGraphs == pc = "graphs" /\ ReadCsvRow(GraphRows)

CreateGraphsByDate ==
    /\ pc = "graphs"
    /\ "prepare_df_to_graph" \in ran
    /\ "create_graphs_by_date" \notin ran
    /\ graphs_by_date' = create_graphs_by_date(pairs)
    /\ ran' = ran \cup {"create_graphs_by_date"}
    /\ UNCHANGED <<pc, frames, metrics, metrics_graph, metrics_df, smoothing, corrs, downloads>>

NextGraphs ==
    ReadGraphs \/ DailyEventCount \/ PrepareDfToGraph \/ CreateGraphsByDate

SpecGraphs == InitGraphs /\ [][NextGraphs]_vars

\* ------------------------------------------------------------ the graph path

MetricDates == {1, 2, 3}

\* The graphs the metrics are computed on: the null graph, one node, one
\* edge, a path, a triangle with a pendant node, two separate edges, a cycle.
GraphCatalogue ==
    {Graph({}, {}),
     Graph({1}, {}),
     Graph({1, 2}, {{1, 2}}),
     Graph({1, 2, 3}, {{1, 2}, {2, 3}}),
     Graph({1, 2, 3, 4}, {{1, 2}, {2, 3}, {1, 3}, {3, 4}}),
     Graph({1, 2, 3, 4}, {{1, 2}, {3, 4}}),
     Graph({1, 2, 3, 4}, {{1, 2}, {2, 3}, {3, 4}, {1, 4}})}

InitMetrics == pc = "metrics" /\ Unread

\* graphs_by_date[date] = g for a new date.
InsertGraph ==
    /\ pc = "metrics"
    /\ ran = {}
    /\ Len(graphs_by_date) < MaxGraphs
    /\ \E d \in MetricDates, g \in GraphCatalogue :
        /\ \A i \in DOMAIN graphs_by_date : graphs_by_date[i].date # d
        /\ graphs_by_date' = Append(graphs_by_date, [date |-> d, graph |-> g])
    /\ UNCHANGED <<pc, ran, frames, metrics, metrics_graph, metrics_df, smoothing, corrs, downloads>>

CalculateGraphMetrics ==
    /\ pc = "metrics"
    /\ ran = {}
    /\ graphs_by_date = <<>>
    /\ \E g \in GraphCatalogue :
        /\ metrics' = calculate_graph_metrics(g)
        /\ metrics_graph' = g
    /\ ran' = ran \cup {"calculate_graph_metrics"}
    /\ UNCHANGED <<pc, frames, graphs_by_date, metrics_df, smoothing, corrs, downloads>>

GraphsMetricsToDataframe ==
    /\ pc = "metrics"
    /\ "graphs_metrics_to_dataframe" \notin ran
    /\ \E w \in 0..MaxSmoothing :
        /\ metrics_df' = graphs_metrics_to_dataframe(graphs_by_date, w)
        /\ smoothing' = w
    /\ ran' = ran \cup {"graphs_metrics_to_dataframe"}
    /\ UNCHANGED <<pc, frames, graphs_by_date, metrics, metrics_graph, corrs, downloads>>

NextMetrics == InsertGraph \/ CalculateGraphMetrics \/ GraphsMetricsToDataframe

SpecMetrics == InitMetrics /\ [][NextMetrics]_vars

\* ---- the correlation functions on a metric table

InitCorr == pc = "corr" /\ Unread

\* One more date in the table: a row with a value for every column.
AppendMetricsRow ==
    /\ pc = "corr"
    /\ ran = {}
    /\ Len(corr_df[1].values) < MaxLen
    /\ \E row \in [{c \in DOMAIN Schema : is_numeric(Schema[c].dtype)} -> Samples] :
        corr_df' = [c \in DOMAIN Schema |->
            [corr_df[c] EXCEPT !.values =
                Append(@, IF is_numeric(Schema[c].dtype) THEN row[c]
                          ELSE Len(@) + 1)]]
    /\ UNCHANGED <<pc, ran, frames, graphs, downloads, lagged, best, max_lag>>

LaggedDistanceCorrelationAllPairs ==
    /\ pc = "corr"
    /\ ran = {}
    /\ \E L \in 0..MaxLag :
        /\ lagged' = lagged_distance_correlation_all_pairs(corr_df, L)
        /\ max_lag' = L
    /\ ran' = ran \cup {"lagged_distance_correlation_all_pairs"}
    /\ UNCHANGED <<pc, frames, graphs, downloads, corr_df, best>>

BestLaggedDistanceCorrelationPerPair ==
    /\ pc = "corr"
    /\ ran = {}
    /\ \E L \in 0..MaxLag :
        /\ lagged' = lagged_distance_correlation_all_pairs(corr_df, L)
        /\ max_lag' = L
    /\ best' = BestResults(lagged')
    /\ ran' = ran \cup {"best_lagged_distance_correlation_per_pair"}
    /\ UNCHANGED <<pc, frames, graphs, downloads, corr_df>>

NextCorr ==
    \/ AppendMetricsRow
    \/ LaggedDistanceCorrelationAllPairs
    \/ BestLaggedDistanceCorrelationPerPair

SpecCorr == InitCorr /\ [][NextCorr]_vars

\* ---- the downloader

InitDownload == pc = "download" /\ Unread

\* One download_file(date_str) call.
DownloadFile ==
    /\ pc = "download"
    /\ \E d \in DateHours, outcome \in Outcomes :
        /\ files' = [files EXCEPT ![d] = download_file(files[d], outcome).file]
        /\ returned' = [returned EXCEPT ![d] = download_file(files[d], outcome).result]
    /\ UNCHANGED <<pc, ran, frames, graphs, corrs, failed_downloads>>

\* One download_date_range run over the date-hours start..end.
DownloadDateRange ==
    /\ pc = "download"
    /\ \E start \in DateHours, end \in DateHours :
        \E outcomes \in [start..end -> Outcomes] :
            /\ files' = [d \in DateHours |->
                    IF d \in start..end
                    THEN download_file(files[d], outcomes[d]).file ELSE files[d]]
            /\ returned' = [d \in DateHours |->
                    IF d \in start..end
                    THEN download_file(files[d], outcomes[d]).result ELSE returned[d]]
            /\ failed_downloads' = FailedFrom(start, end, outcomes)
    /\ UNCHANGED <<pc, ran, frames, graphs, corrs>>

NextDownload == DownloadFile \/ DownloadDateRange

SpecDownload == InitDownload /\ [][NextDownload]_vars

\* ====================================================================== claims

Prepared == "prepare_df_to_graph" \in ran

\* C1: every row prepare_df_to_graph returns has actor_id < actor_id_2, and
\* no two returned rows share the date and the unordered actor pair.
C1_PairsOrderedAndUnique ==
    Prepared =>
        /\ \A i \in DOMAIN pairs : pairs[i].actor_id < pairs[i].actor_id_2
        /\ \A i, j \in DOMAIN pairs :
              (/\ i # j
               /\ pairs[i].event_date = pairs[j].event_date)
              => {pairs[i].actor_id, pairs[i].actor_id_2}
                     # {pairs[j].actor_id, pairs[j].actor_id_2}

\* Two actors share two objects on one day under event_type None: the join
\* emits the pair once per object and the aggregation leaves one row.
C1_Witness ==
    /\ Prepared
    /\ pairs_arg = "None"
    /\ Len(pairs) = 1
    /\ \E i, j \in DOMAIN counts :
          /\ counts[i].object_id # counts[j].object_id
          /\ counts[i].event_date = pairs[1].event_date
          /\ counts[j].event_date = pairs[1].event_date
          /\ counts[i].actor_id = pairs[1].actor_id
          /\ counts[j].actor_id = pairs[1].actor_id
    /\ Len(_create_actor_pairs_by_date_and_object(counts)) = 2

\* The event count of actor a on object o at date d in count table c.
ActorCount(c, d, a, o) ==
    SumSeq([i \in DOMAIN c |->
        IF c[i].event_date = d /\ c[i].actor_id = a /\ c[i].object_id = o
        THEN c[i].daily_event_count ELSE 0])

\* The objects on which both a and b have events at date d.
SharedObjects(c, d, a, b) ==
    {o \in Objects : ActorCount(c, d, a, o) > 0 /\ ActorCount(c, d, b, o) > 0}

RECURSIVE SumOver(_, _, _, _, _)
SumOver(S, c, d, a, b) ==
    IF S = {} THEN 0
    ELSE LET o == CHOOSE x \in S : TRUE
         IN ActorCount(c, d, a, o) + ActorCount(c, d, b, o)
                + SumOver(S \ {o}, c, d, a, b)

\* C2: the weight of a returned row (d, a, b, w) is the sum, over the
\* objects a and b share at d, of a's count plus b's count on that object,
\* each actor's count for an object and date counted once.
C2_WeightIsSumOfCounts ==
    Prepared =>
        LET c == FilterEventType(counts, pairs_arg)
        IN \A i \in DOMAIN pairs :
              pairs[i].total_daily_event_count
                  = SumOver(SharedObjects(c, pairs[i].event_date,
                                pairs[i].actor_id, pairs[i].actor_id_2),
                            c, pairs[i].event_date,
                            pairs[i].actor_id, pairs[i].actor_id_2)

\* The rows of df whose date is in S / is not in S.
DatesIn(d, S) == LET Keep(r) == r.event_date \in S IN SelectSeq(d, Keep)
DatesOut(d, S) == LET Keep(r) == r.event_date \notin S IN SelectSeq(d, Keep)

IdOrder(n) == [i \in 1..n |-> i]

PreparedRows(d, event_type) ==
    LET c == daily_event_count(d)
    IN SeqToSet(prepare_df_to_graph(c, event_type,
                    IdOrder(NumPairGroups(c, event_type))))

\* C8: for every split of the event table by date, the rows aggregated from
\* the two parts are together the rows aggregated from the whole table.  (A
\* split is unordered: S is the part that holds the null-dated rows.)
C8_DatePartition ==
    Prepared =>
        \A T \in SUBSET Dates :
            LET S == T \cup {NULL}
            IN PreparedRows(DatesIn(df, S), pairs_arg)
                   \cup PreparedRows(DatesOut(df, S), pairs_arg)
                 = SeqToSet(pairs)

\* Pairs on two different dates, so that a split separates them.
C8_Witness ==
    /\ Prepared
    /\ \E i, j \in DOMAIN pairs : pairs[i].event_date # pairs[j].event_date
    /\ \E S \in SUBSET Dates :
          /\ PreparedRows(DatesIn(df, S), pairs_arg) # {}
          /\ PreparedRows(DatesOut(df, S), pairs_arg) # {}

Counted == "daily_event_count" \in ran
Rolled == "rolling_window_stats" \in ran

\* The frame without its null-dated records.
WithoutNullDates(d) == LET Keep(r) == r.event_date # NULL IN SelectSeq(d, Keep)

\* C3: a null-dated record is excluded from every grouping operation: no
\* output of daily_event_count, prepare_df_to_graph or rolling_window_stats
\* has a row keyed by a null date, and each output is the one obtained from
\* the input without its null-dated records.
C3_NullDatesExcluded ==
    LET clean == WithoutNullDates(df)
    IN /\ Counted =>
            /\ \A i \in DOMAIN counts : counts[i].event_date # NULL
            /\ counts = daily_event_count(clean)
       /\ Prepared =>
            /\ \A i \in DOMAIN pairs : pairs[i].event_date # NULL
            /\ SeqToSet(pairs) = PreparedRows(clean, pairs_arg)
       /\ Rolled =>
            /\ \A i \in DOMAIN rolling : rolling[i].event_date # NULL
            /\ \E order \in Orders(NumDateGroups(daily_event_count(clean),
                                                 rolling_arg.event_type)) :
                  rolling = rolling_window_stats(daily_event_count(clean),
                                rolling_arg.event_type, rolling_arg.window_days, order)

\* The distinct dates of count table c, ascending.
DatesOf(c) ==
    LET ds == {c[i].event_date : i \in DOMAIN c}
    IN [i \in 1..Cardinality(ds) |->
           CHOOSE d \in ds : Cardinality({e \in ds : e < d}) = i - 1]

UniqueActorsOn(c, d) ==
    Cardinality({a \in Actors : \E i \in DOMAIN c :
                    c[i].event_date = d /\ c[i].actor_id = a})

EventsOn(c, d) ==
    SumSeq([i \in DOMAIN c |-> IF c[i].event_date = d THEN c[i].daily_event_count ELSE 0])

\* C5: rolling_window_stats returns one row per date, ascending; the first
\* D-1 rows are null in both series and every later row holds the sum of the
\* daily values of the D consecutive dates ending at its date, whatever order
\* the grouping emitted the dates in.
C5_RollingSumsInDateOrder ==
    Rolled =>
        LET c == FilterEventType(counts, rolling_arg.event_type)
            D == rolling_arg.window_days
            days == DatesOf(c)
        IN /\ Len(rolling) = Len(days)
           /\ \A i \in DOMAIN rolling :
                /\ rolling[i].event_date = days[i]
                /\ i < D =>
                     /\ rolling[i].rolling_unique_actors = NULL
                     /\ rolling[i].rolling_event_count = NULL
                /\ i >= D =>
                     /\ rolling[i].rolling_unique_actors =
                          SumSeq([k \in 1..D |-> UniqueActorsOn(c, days[i - D + k])])
                     /\ rolling[i].rolling_event_count =
                          SumSeq([k \in 1..D |-> EventsOn(c, days[i - D + k])])

\* C4: calculate_graph_metrics on a graph of no node or of one node does not
\* raise, and every metric of the record it returns is a defined zero or
\* sentinel value.
C4_DegenerateGraphMetrics ==
    ("calculate_graph_metrics" \in ran /\ number_of_nodes(metrics_graph) <= 1) =>
        /\ metrics.exception = "none"
        /\ metrics.value.number_of_nodes = Whole(number_of_nodes(metrics_graph))
        /\ \A k \in SeqToSet(MetricNames) \ {"number_of_nodes", "number_of_isolated_nodes",
                                             "number_of_connected_components"} :
              metrics.value[k] \in {Whole(0), INF}

Assembled == "graphs_metrics_to_dataframe" \in ran

\* The dates of the dict, ascending.
DictDates(items) ==
    LET ds == {items[i].date : i \in DOMAIN items}
    IN [p \in 1..Cardinality(ds) |->
           CHOOSE d \in ds : Cardinality({e \in ds : e < d}) = p - 1]

\* The metric record of the graph the dict holds for date d.
MetricsOn(items, d) ==
    calculate_graph_metrics(
        items[CHOOSE i \in DOMAIN items : items[i].date = d].graph).value

RECURSIVE UnsmoothedFrom(_, _, _)
UnsmoothedFrom(items, days, p) ==
    IF p > Len(days) THEN <<>>
    ELSE <<MetricsOn(items, days[p])>> \o UnsmoothedFrom(items, days, p + 1)

\* The unsmoothed metric records, in date order.
Unsmoothed(items) == UnsmoothedFrom(items, DictDates(items), 1)

\* The mean of the cells lo..hi of column col of the records of `unsmoothed`.
MeanOfRows(unsmoothed, col, lo, hi) ==
    RDiv(RSum([k \in 1..(hi - lo + 1) |-> unsmoothed[lo + k - 1][col]]), hi - lo + 1)

SmoothingHolds(items, days, unsmoothed) ==
    /\ metrics_df.exception = "none"
    /\ Len(metrics_df.rows) = Len(items)
    /\ \A i \in DOMAIN metrics_df.rows :
          /\ metrics_df.rows[i].event_date = days[i]
          /\ \A col \in SeqToSet(MetricNames) :
                metrics_df.rows[i].value[col] =
                    IF smoothing > 1
                    THEN MeanOfRows(unsmoothed, col,
                             IF i - smoothing + 1 > 1 THEN i - smoothing + 1 ELSE 1, i)
                    ELSE unsmoothed[i][col]

\* C6: graphs_metrics_to_dataframe over K dates returns K rows; with W > 1
\* row i of every metric column is the mean of the unsmoothed rows
\* max(0, i-W+1)..i and the dates are unchanged; with W <= 1 every metric
\* column holds its unsmoothed value.
C6_SmoothingIsPartialWindowMean ==
    Assembled =>
        SmoothingHolds(graphs_by_date, DictDates(graphs_by_date),
                       Unsmoothed(graphs_by_date))

\* C7: graphs_metrics_to_dataframe returns exactly one row per date of the
\* dict, in strictly ascending date order, whatever the insertion order.
C7_OneRowPerDateAscending ==
    Assembled =>
        /\ metrics_df.exception = "none"
        /\ {metrics_df.rows[i].event_date : i \in DOMAIN metrics_df.rows}
              = {graphs_by_date[i].date : i \in DOMAIN graphs_by_date}
        /\ Len(metrics_df.rows) = Len(graphs_by_date)
        /\ \A i, j \in DOMAIN metrics_df.rows :
              i < j => metrics_df.rows[i].event_date < metrics_df.rows[j].event_date

\* ---- C9, C10: lagged correlation

LaggedRan == "lagged_distance_correlation_all_pairs" \in ran
BestRan == "best_lagged_distance_correlation_per_pair" \in ran

NumericIndexes == {c \in DOMAIN corr_df : is_numeric(corr_df[c].dtype)}

\* s without its first l samples, and s without its last l samples.
DropFirst(s, l) == SubSeq(s, l + 1, Len(s))
DropLast(s, l) == SubSeq(s, 1, Len(s) - l)

\* The two vectors the claim names for lag l.
ShiftedX(x, l) ==
    IF l > 0 THEN DropFirst(x, l) ELSE IF l < 0 THEN DropLast(x, 0 - l) ELSE x
ShiftedY(y, l) ==
    IF l > 0 THEN DropLast(y, l) ELSE IF l < 0 THEN DropFirst(y, 0 - l) ELSE y

LagsAsClaimed(lags, x, y, L) ==
    /\ Len(lags) = 2 * L + 1
    /\ \A k \in 1..(2 * L + 1) :
        /\ lags[k].lag = k - L - 1
        /\ Len(ShiftedX(x, k - L - 1)) = Len(ShiftedY(y, k - L - 1))
        /\ lags[k].d = distance_correlation(ShiftedX(x, k - L - 1),
                                            ShiftedY(y, k - L - 1))

\* C9: for every pair of numeric columns (x, y) and every max_lag L >= 0 the
\* result holds for that pair one list of exactly 2L+1 entries, with the lags
\* -L, ..., L in that order, and the entry for lag l is the coefficient of
\* two equal-length vectors: x without its first l samples against y without
\* its last l samples for l > 0, x without its last |l| samples against y
\* without its first |l| samples for l < 0, and x against y for l = 0.
C9_LaggedListShape ==
    LaggedRan =>
        \A i, j \in NumericIndexes :
            i < j =>
                /\ Cardinality({p \in DOMAIN lagged :
                        lagged[p].pair = <<corr_df[i].name, corr_df[j].name>>}) = 1
                /\ \A p \in DOMAIN lagged :
                    lagged[p].pair = <<corr_df[i].name, corr_df[j].name>> =>
                        LagsAsClaimed(lagged[p].lags, corr_df[i].values,
                                      corr_df[j].values, max_lag)

\* A table of three dates was given with max_lag >= 1, and for some pair the
\* coefficients at lag 1 and at lag -1 differ: the direction of the shift
\* shows in the result.
C9_Witness ==
    /\ LaggedRan
    /\ max_lag >= 1
    /\ Len(corr_df[1].values) >= 3
    /\ \E p \in DOMAIN lagged :
        lagged[p].lags[max_lag].d # lagged[p].lags[max_lag + 2].d

\* The entry at position k of a lagged list has the greatest coefficient and
\* no earlier entry has the same coefficient.
FirstMaximum(lags, k) ==
    /\ \A m \in DOMAIN lags : ~Greater(lags[m].d, lags[k].d)
    /\ \A m \in 1..(k - 1) : lags[m].d # lags[k].d

BestAsClaimed(all) ==
    /\ Len(best) = Len(all)
    /\ \A p \in DOMAIN all :
        /\ best[p].pair = all[p].pair
        /\ \E k \in DOMAIN all[p].lags :
            /\ best[p].best = all[p].lags[k]
            /\ FirstMaximum(all[p].lags, k)

\* C10: for every column pair, best_lagged_distance_correlation_per_pair
\* returns the (lag, coefficient) entry of that pair's lagged list whose
\* coefficient is the maximum over the lags -L..L, and when several lags
\* attain the maximum, the one met first scanning from -L to +L.
C10_BestLagIsFirstMaximum ==
    BestRan => BestAsClaimed(lagged)

\* For some pair the maximum is attained at two lags or more, it is not the
\* coefficient of the first entry, and the earliest of those lags is returned.
C10_Witness ==
    /\ BestRan
    /\ \E p \in DOMAIN best :
        /\ best[p].best.d # Whole(0)
        /\ best[p].best.lag > 0 - max_lag
        /\ best[p].best.lag < max_lag
        /\ \E l \in (best[p].best.lag + 1)..max_lag :
            [lag |-> l, d |-> best[p].best.d] \in SeqToSet(lagged[p].lags)

\* ---- C11: one graph per date of the pair table

Created == "create_graphs_by_date" \in ran

PairDates == {pairs[i].event_date : i \in DOMAIN pairs}
PairRowsOn(d) == {i \in DOMAIN pairs : pairs[i].event_date = d}
GraphItemsOn(d) == {k \in DOMAIN graphs_by_date : graphs_by_date[k].date = d}

\* g is the graph of the rows of date d.
GraphOfDate(g, d) ==
    /\ g.edges = {{pairs[i].actor_id, pairs[i].actor_id_2} : i \in PairRowsOn(d)}
    /\ Cardinality(g.edges) = Cardinality(PairRowsOn(d))
    /\ \A i \in PairRowsOn(d) :
        g.weight[{pairs[i].actor_id, pairs[i].actor_id_2}]
            = pairs[i].total_daily_event_count
    /\ \A e \in g.edges : Cardinality(e) = 2
    /\ g.nodes = UNION g.edges
    /\ \A v \in g.nodes : \E e \in g.edges : v \in e

\* C11: for every pair table prepare_df_to_graph produced,
\* create_graphs_by_date returns one graph per distinct date of the table;
\* the edges of the graph of date d are exactly the (actor_a, actor_b) rows
\* of d, one edge per row with the row's total weight, no edge is a
\* self-loop, and the nodes are exactly the ends of the edges, so no node
\* has degree 0.
C11_OneGraphPerDate ==
    Created =>
        /\ Len(graphs_by_date) = Cardinality(PairDates)
        /\ \A k \in DOMAIN graphs_by_date : graphs_by_date[k].date \in PairDates
        /\ \A d \in PairDates :
            /\ Cardinality(GraphItemsOn(d)) = 1
            /\ \A k \in GraphItemsOn(d) : GraphOfDate(graphs_by_date[k].graph, d)

\* A graph was built for a date on which an actor has events but no
\* partner: that actor is not a node of the day's graph, which has an edge.
C11_Witness ==
    /\ Created
    /\ \E k \in DOMAIN graphs_by_date, i \in DOMAIN counts :
        /\ counts[i].event_date = graphs_by_date[k].date
        /\ counts[i].actor_id \notin graphs_by_date[k].graph.nodes
        /\ graphs_by_date[k].graph.edges # {}

\* ---- C12: the downloader

\* C12: after any sequence of download_file calls, where a request may fail
\* before or in the middle of writing the body, the last call for a
\* date-hour returned True only if the completely downloaded file is at its
\* output path.
C12_TrueOnlyForCompleteFile ==
    \A d \in DateHours :
        returned[d] = "True" => files[d] = Written(BodyChunks)

====
